---- MODULE Spec2Model ----
(***************************************************************************)
(* Face Lookup DataBase (src/fldb.py): FLDB, Image, Face and Person.       *)
(*                                                                         *)
(* Python objects are modelled by identity.  A Person is identified by its *)
(* name and an Image by its url, because FLDB.add_person and               *)
(* FLDB.add_image are the only constructors and both refuse a key that is  *)
(* already registered.  Face objects are created anew by index_faces,      *)
(* get_face and list_faces, so they live in a heap and are identified by   *)
(* their position in it.                                                   *)
(*                                                                         *)
(* The recognition backend (self.rekog) is an input: every backend call    *)
(* consumes a response chosen by the environment.                          *)
(***************************************************************************)
EXTENDS Integers, Sequences, FiniteSets, TLC

\* ---------------------------------------------------------------- bounds
Names == {"p1", "p2"}
Urls == {"u1", "u2"}
FidSeq == <<"f1", "f2", "f3">>
Fids == {FidSeq[i] : i \in 1..Len(FidSeq)}
RawSims == {80}              \* backend similarities, on the 0..100 scale

\* The backend keeps one ExternalImageId for each face.
ImageOf == [f \in Fids |-> IF f = "f3" THEN "u2" ELSE "u1"]

MaxObj == 2                  \* Face objects ever constructed
MaxSize == 4                 \* Face objects, confirmations and filled similar lists
MaxRecs == 1                 \* records in one detection or search response
PageSize == 2                \* records per page of the backend listing

\* ------------------------------------------------------- python values
None == "None"
OK == "ok"
AssertionError == "AssertionError"
KeyError == "KeyError"
TypeError == "TypeError"
AttributeError == "AttributeError"
BackendError == "BackendError"      \* whatever self.rekog raises

\* The error taxonomy of the design, as the code raises it.
AlreadyExists == AssertionError
NotFound == KeyError

\* A float, kept exact as a fraction <<numerator, denominator>>.
One == <<1, 1>>
FAdd(a, b) == <<a[1] * b[2] + b[1] * a[2], a[2] * b[2]>>
FDiv(a, n) == <<a[1], a[2] * n>>
FEq(a, b) == a[1] * b[2] = b[1] * a[2]
FLeq(a, b) == a[1] * b[2] <= b[1] * a[2]

\* A lazily filled attribute: None, or a list.
NoList == [init |-> FALSE, val |-> <<>>]
SomeList(s) == [init |-> TRUE, val |-> s]

\* A backend face record.  shape says which keys the dict carries:
\*   "flat"    {FaceId, ExternalImageId}
\*   "wrapped" {Face: {FaceId, ExternalImageId}}
\*   "full"    {FaceId, ExternalImageId, Face: {FaceId, ExternalImageId}}
Data(shape, fid, ext) == [shape |-> shape, FaceId |-> fid, ExternalImageId |-> ext]
NoData == Data("none", None, None)
HasKey(d, k) ==
    CASE k = "Face" -> d.shape \in {"wrapped", "full"}
      [] k = "FaceId" -> d.shape \in {"flat", "full"}
      [] OTHER -> FALSE
\* d['Face']
Sub(d) == Data("flat", d.FaceId, d.ExternalImageId)

Range(s) == {s[i] : i \in 1..Len(s)}
SeqsUpTo(S, n) == UNION {[1..k -> S] : k \in 0..n}

\* ------------------------------------------------------------- state
VARIABLES
    persons,    \* FLDB.persons: name -> Person.faces (list of Face objects)
    images,     \* FLDB.images: url -> Image.faces (None or list of Face objects)
    faces,      \* FLDB.faces: face id -> Face object
    heap,       \* Face objects: fid, image, similar, person
    ret         \* the last call: the operation and how it ended

vars == <<persons, images, faces, heap, ret>>

\* The database as one value, threaded through the methods.
\* calls counts the backend calls of the method in progress.
DB == [persons |-> persons, images |-> images, faces |-> faces,
       heap |-> heap, calls |-> 0]

Objs == 1..Len(heap)

\* The outcome of a method: the database after it, the exception it raised
\* (OK when it returned) and what it returned.
Out(db, err, val) == [db |-> db, err |-> err, val |-> val]

\* The record of a call.
Ret(op, status) == [op |-> op, status |-> status]

Put(f, k, v) == [x \in DOMAIN f \cup {k} |-> IF x = k THEN v ELSE f[x]]

\* A statement followed by the rest of the body: K applied to the outcome v.
Then(v, K(_)) == K(v)

\* ------------------------------------------------------------- FLDB
\* add_person without its assertion: a registered name is overwritten.
AddPersonAlways(db, name) ==
    Out([db EXCEPT !.persons = Put(@, name, <<>>)], OK, name)
\* FLDB.add_person
add_person(db, name) ==
    IF name \in DOMAIN db.persons THEN Out(db, AssertionError, None)
    ELSE Out([db EXCEPT !.persons = Put(@, name, <<>>)], OK, name)

\* get_person that adds whenever create is set, registered or not.
GetPersonAlwaysAdds(db, name, create) ==
    IF create THEN add_person(db, name)
    ELSE IF name \in DOMAIN db.persons THEN Out(db, OK, name)
    ELSE Out(db, KeyError, None)
\* FLDB.get_person
get_person(db, name, create) ==
    IF create /\ name \notin DOMAIN db.persons THEN add_person(db, name)
    ELSE IF name \in DOMAIN db.persons THEN Out(db, OK, name)
    ELSE Out(db, KeyError, None)

\* An unindexed registration whose face list is already the empty list.
AddImageUnindexedEmptyList(db, url) ==
    IF url \in DOMAIN db.images THEN Out(db, AssertionError, None)
    ELSE Out([db EXCEPT !.images = Put(@, url, SomeList(<<>>))], OK, url)
\* FLDB.add_image with index=False: the assertion, Image(self, url) and the
\* registration.
add_image_unindexed(db, url) ==
    IF url \in DOMAIN db.images THEN Out(db, AssertionError, None)
    ELSE Out([db EXCEPT !.images = Put(@, url, NoList)], OK, url)

\* get_image that creates an absent Image whatever create says.
GetImageAlwaysCreates(db, url, create) ==
    IF url \notin DOMAIN db.images THEN add_image_unindexed(db, url)
    ELSE Out(db, OK, url)
\* FLDB.get_image
get_image(db, url, create) ==
    IF create /\ url \notin DOMAIN db.images THEN add_image_unindexed(db, url)
    ELSE IF url \in DOMAIN db.images THEN Out(db, OK, url)
    ELSE Out(db, KeyError, None)

\* A constructor that records the ExternalImageId without get_image.
FaceInitNoGetImage(db, fulldata) ==
    IF ~HasKey(fulldata, "Face") THEN Out(db, KeyError, 0)
    ELSE Out([db EXCEPT !.heap =
                  Append(@, [fid |-> Sub(fulldata).FaceId,
                             image |-> Sub(fulldata).ExternalImageId,
                             similar |-> NoList, person |-> None])],
             OK, Len(db.heap) + 1)
\* Face.__init__(db, fulldata); no caller passes image.
Face_init(db, fulldata) ==
    IF ~HasKey(fulldata, "Face") THEN Out(db, KeyError, 0)
    ELSE Then(get_image(db, Sub(fulldata).ExternalImageId, TRUE), LAMBDA img :
             Out([img.db EXCEPT !.heap =
                      Append(@, [fid |-> Sub(fulldata).FaceId, image |-> img.val,
                                 similar |-> NoList, person |-> None])],
                 OK, Len(db.heap) + 1))

\* [Face(self, x) for x in records]
RECURSIVE FaceList(_, _)
FaceList(db, records) ==
    IF records = <<>> THEN Out(db, OK, <<>>)
    ELSE Then(Face_init(db, Head(records)), LAMBDA h :
             IF h.err # OK THEN Out(h.db, h.err, <<>>)
             ELSE Then(FaceList(h.db, Tail(records)), LAMBDA t :
                      Out(t.db, t.err,
                          IF t.err = OK THEN <<h.val>> \o t.val ELSE <<>>)))

\* A backend response: it raises, or it carries records.
Resp(fail, records) == [fail |-> fail, records |-> records]

\* FLDB._index_faces and FLDB.index_faces
index_faces(db, url, resp) ==
    IF resp.fail THEN Out([db EXCEPT !.calls = @ + 1], BackendError, <<>>)
    ELSE FaceList([db EXCEPT !.calls = @ + 1], resp.records)

\* Image.get_faces: "if self.faces" is false for None and for the empty list.
Image_get_faces(db, url, resp) ==
    IF db.images[url].init /\ db.images[url].val # <<>>
    THEN Out(db, OK, db.images[url].val)
    ELSE Then(index_faces(db, url, resp), LAMBDA r :
             IF r.err # OK THEN r
             ELSE Out([r.db EXCEPT !.images[url] = SomeList(r.val)], OK, r.val))

\* self.faces.update({x.fid: x for x in objs})
RECURSIVE Update(_, _, _)
Update(f, h, objs) ==
    IF objs = <<>> THEN f
    ELSE Update(Put(f, h[Head(objs)].fid, Head(objs)), h, Tail(objs))

\* add_image that indexes the image and forgets to register its faces.
AddImageNoRegister(db, url, index, resp) ==
    Then(add_image_unindexed(db, url), LAMBDA a :
        IF a.err # OK \/ ~index THEN a
        ELSE Then(Image_get_faces(a.db, url, resp), LAMBDA g :
                 IF g.err # OK THEN Out(g.db, g.err, None)
                 ELSE Out(g.db, OK, url)))
\* FLDB.add_image
add_image(db, url, index, resp) ==
    Then(add_image_unindexed(db, url), LAMBDA a :
        IF a.err # OK \/ ~index THEN a
        ELSE Then(Image_get_faces(a.db, url, resp), LAMBDA g :
                 IF g.err # OK THEN Out(g.db, g.err, None)
                 ELSE Out([g.db EXCEPT !.faces = Update(@, g.db.heap, g.val)],
                          OK, url)))

\* FLDB.get_face; fid None stands for the omitted argument.
get_face(db, fid, data, create) ==
    IF fid = None /\ data = NoData THEN Out(db, TypeError, 0)
    ELSE IF fid = None /\ ~HasKey(data, "FaceId") THEN Out(db, KeyError, 0)
    ELSE Then(IF fid = None THEN data.FaceId ELSE fid, LAMBDA k :
             IF create /\ data # NoData /\ k \notin DOMAIN db.faces
             THEN Then(Face_init(db, data), LAMBDA f :
                      IF f.err # OK THEN Out(f.db, f.err, 0)
                      ELSE Out([f.db EXCEPT !.faces = Put(@, k, f.val)], OK, f.val))
             ELSE IF k \in DOMAIN db.faces THEN Out(db, OK, db.faces[k])
             ELSE Out(db, KeyError, 0))

\* The backend listing: all its records, cut into pages.
RECURSIVE Pages(_)
Pages(records) ==
    IF Len(records) <= PageSize THEN <<records>>
    ELSE <<SubSeq(records, 1, PageSize)>>
         \o Pages(SubSeq(records, PageSize + 1, Len(records)))

\* {x['FaceId']: Face(self, x) for x in records}, built before it is assigned
RECURSIVE FaceDict(_, _, _)
FaceDict(db, records, acc) ==
    IF records = <<>> THEN Out(db, OK, acc)
    ELSE Then(Head(records), LAMBDA x :
             IF ~HasKey(x, "FaceId") THEN Out(db, KeyError, acc)
             ELSE Then(Face_init(db, x), LAMBDA f :
                      IF f.err # OK THEN Out(f.db, f.err, acc)
                      ELSE FaceDict(f.db, Tail(records), Put(acc, x.FaceId, f.val))))

EmptyDict == [k \in {} |-> 0]

\* list_faces that empties self.faces first and fills it entry by entry.
ListFacesClearsFirst(db, refresh, listing) ==
    IF ~refresh THEN Out(db, OK, DOMAIN db.faces)
    ELSE IF listing.fail
    THEN Out([db EXCEPT !.calls = @ + 1, !.faces = EmptyDict], BackendError, {})
    ELSE Then(FaceDict([db EXCEPT !.calls = @ + 1], Pages(listing.records)[1],
                       EmptyDict), LAMBDA d :
             IF d.err # OK THEN Out([d.db EXCEPT !.faces = d.val], d.err, {})
             ELSE Out([d.db EXCEPT !.faces = d.val], OK, DOMAIN d.val))
\* FLDB.list_faces: one backend call, no NextToken, so the first page only.
list_faces(db, refresh, listing) ==
    IF ~refresh THEN Out(db, OK, DOMAIN db.faces)
    ELSE IF listing.fail THEN Out([db EXCEPT !.calls = @ + 1], BackendError, {})
    ELSE Then(FaceDict([db EXCEPT !.calls = @ + 1], Pages(listing.records)[1],
                       EmptyDict), LAMBDA d :
             IF d.err # OK THEN Out(d.db, d.err, {})
             ELSE Out([d.db EXCEPT !.faces = d.val], OK, DOMAIN d.val))

\* x['Similarity'] / 100.0
Div100(raw) == <<raw, 100>>

\* A search match: {'Face': data, 'Similarity': raw}
Match(data, raw) == [Face |-> data, Similarity |-> raw]

\* [(self.get_face(data=x['Face'], create=True), x['Similarity']/100.0) for x in matches]
RECURSIVE MatchList(_, _)
MatchList(db, matches) ==
    IF matches = <<>> THEN Out(db, OK, <<>>)
    ELSE Then(get_face(db, None, Head(matches).Face, TRUE), LAMBDA g :
             IF g.err # OK THEN Out(g.db, g.err, <<>>)
             ELSE Then(MatchList(g.db, Tail(matches)), LAMBDA t :
                      Out(t.db, t.err,
                          IF t.err = OK
                          THEN <<<<g.val, Div100(Head(matches).Similarity)>>>> \o t.val
                          ELSE <<>>)))

\* FLDB._search_faces and FLDB.search_faces
search_faces(db, o, resp) ==
    IF resp.fail THEN Out([db EXCEPT !.calls = @ + 1], BackendError, <<>>)
    ELSE MatchList([db EXCEPT !.calls = @ + 1], resp.records)

\* ------------------------------------------------------------- Face
\* get_similar with "if refresh or not self.similar".
GetSimilarTruthy(db, o, refresh, resp) ==
    IF refresh \/ db.heap[o].similar.val = <<>>
    THEN Then(search_faces(db, o, resp), LAMBDA r :
             IF r.err # OK THEN r
             ELSE Out([r.db EXCEPT !.heap[o].similar = SomeList(r.val)], OK, r.val))
    ELSE Out(db, OK, db.heap[o].similar.val)
\* Face.get_similar
get_similar(db, o, refresh, resp) ==
    IF refresh \/ ~db.heap[o].similar.init
    THEN Then(search_faces(db, o, resp), LAMBDA r :
             IF r.err # OK THEN r
             ELSE Out([r.db EXCEPT !.heap[o].similar = SomeList(r.val)], OK, r.val))
    ELSE Out(db, OK, db.heap[o].similar.val)

\* Face._set_person
Face__set_person(db, o, name) == [db EXCEPT !.heap[o].person = name]

\* _add_face that first takes the face out of every confirmed list.
PersonAddFaceMoves(db, name, o) ==
    [db EXCEPT !.persons =
        [p \in DOMAIN @ |->
            IF p = name THEN Append(SelectSeq(@[p], LAMBDA x : x # o), o)
            ELSE SelectSeq(@[p], LAMBDA x : x # o)]]
\* Person._add_face
Person__add_face(db, name, o) == [db EXCEPT !.persons[name] = Append(@, o)]

\* Face.set_person
set_person(db, o, name) ==
    Out(Person__add_face(Face__set_person(db, o, name), name, o), OK, None)

\* Face.get_person: x[0].persom raises on the first entry of a similar list.
Face_get_person(db, o, resp) ==
    IF db.heap[o].person # None THEN Out(db, OK, <<<<db.heap[o].person, One>>>>)
    ELSE Then(get_similar(db, o, FALSE, resp), LAMBDA s :
             IF s.err # OK THEN Out(s.db, s.err, <<>>)
             ELSE IF s.val # <<>> THEN Out(s.db, AttributeError, <<>>)
             ELSE Out(s.db, OK, <<>>))

\* ------------------------------------------------------------ Person
\* Person.add_face
add_face(db, name, o) ==
    Out(Face__set_person(Person__add_face(db, name, o), o, name), OK, None)

\* The dict "faces" of Person.get_faces, in insertion order:
\* entries <<fid, <<Face, score>>>>.
DictHas(d, k) == \E i \in 1..Len(d) : d[i][1] = k
DictSet(d, k, v) ==
    IF DictHas(d, k) THEN [i \in 1..Len(d) |-> IF d[i][1] = k THEN <<k, v>> ELSE d[i]]
    ELSE Append(d, <<k, v>>)
DictValues(d) == [i \in 1..Len(d) |-> d[i][2]]

\* [x for x in similar if not x.person]: x is a (Face, similarity) tuple,
\* which has no attribute person.
Unconfirmed(db, similar) ==
    IF similar = <<>> THEN Out(db, OK, <<>>) ELSE Out(db, AttributeError, <<>>)

\* for sim in similar: old = faces.get(sim[0].fid, (sim[0], 0.0));
\* faces[sim.fid] = (old[0], old[1] + sim[1]) -- sim.fid raises as well.
Accumulate(db, d, similar) ==
    IF similar = <<>> THEN Out(db, OK, d) ELSE Out(db, AttributeError, d)

\* for confirmed in self.faces: ...; resps[i] answers the search for the
\* i-th confirmed face, if one is made.
RECURSIVE GuessLoop(_, _, _, _, _)
GuessLoop(db, confirmed, refresh, resps, d) ==
    IF confirmed = <<>> THEN Out(db, OK, d)
    ELSE Then(get_similar(db, Head(confirmed), refresh, Head(resps)), LAMBDA s :
             IF s.err # OK THEN Out(s.db, s.err, d)
             ELSE Then(Unconfirmed(s.db, s.val), LAMBDA u :
                      IF u.err # OK THEN Out(u.db, u.err, d)
                      ELSE Then(Accumulate(u.db, d, u.val), LAMBDA a :
                               IF a.err # OK THEN a
                               ELSE GuessLoop(a.db, Tail(confirmed), refresh,
                                              Tail(resps), a.val))))

\* Normalize: for thisguess in faces.values(): thisguess = (..., thisguess[1] / float(n))
\* rebinds the loop variable and leaves the dict as it was; the division
\* is evaluated once for each entry.
ZeroDivisionError == "ZeroDivisionError"
\* The same with 1 / float(n) computed once, before the loop.
NormalizeHoisted(db, d, n) ==
    IF n = 0 THEN Out(db, ZeroDivisionError, d) ELSE Out(db, OK, d)
Normalize(db, d, n) ==
    IF d # <<>> /\ n = 0 THEN Out(db, ZeroDivisionError, d) ELSE Out(db, OK, d)

\* The dict without the update below: the known faces are left out.
OverlaySkipped(d, h, confirmed) == d
\* faces.update({x.fid: (x, 1.0) for x in self.faces})
RECURSIVE Overlay(_, _, _)
Overlay(d, h, confirmed) ==
    IF confirmed = <<>> THEN d
    ELSE Overlay(DictSet(d, h[Head(confirmed)].fid, <<Head(confirmed), One>>),
                 h, Tail(confirmed))

\* sorted(values, key=lambda x: x[1], reverse=True): stable, best first
RECURSIVE Insert(_, _)
Insert(x, s) ==
    IF s = <<>> THEN <<x>>
    ELSE IF FLeq(Head(s)[2], x[2]) /\ ~FEq(Head(s)[2], x[2]) THEN <<x>> \o s
    ELSE <<Head(s)>> \o Insert(x, Tail(s))
RECURSIVE Sorted(_)
Sorted(s) ==
    IF s = <<>> THEN <<>> ELSE Insert(s[Len(s)], Sorted(SubSeq(s, 1, Len(s) - 1)))

\* Person.get_faces
Person_get_faces(db, name, guess, refresh, resps) ==
    Then(IF guess THEN GuessLoop(db, db.persons[name], refresh, resps, <<>>)
         ELSE Out(db, OK, <<>>), LAMBDA g :
        IF g.err # OK THEN Out(g.db, g.err, <<>>)
        ELSE Then(IF guess THEN Normalize(g.db, g.val, Len(db.persons[name]))
                  ELSE Out(g.db, OK, g.val), LAMBDA n :
                 IF n.err # OK THEN Out(n.db, n.err, <<>>)
                 ELSE Out(n.db, OK,
                          Sorted(DictValues(Overlay(n.val, n.db.heap,
                                                    db.persons[name]))))))

\* ------------------------------------------------------- environment
\* What the detection backend may answer: FaceRecords, each {'Face': ...}.
DetectResps ==
    {Resp(TRUE, <<>>)} \cup
    {Resp(FALSE, [i \in 1..Len(s) |-> Data("wrapped", s[i], ImageOf[s[i]])]) :
        s \in SeqsUpTo(Fids, MaxRecs)}

\* What the search backend may answer: FaceMatches, whose 'Face' is the flat
\* record of the backend or a record that also nests itself under 'Face'.
SearchResps ==
    {Resp(TRUE, <<>>)} \cup
    {Resp(FALSE, [i \in 1..Len(s) |->
                    Match(Data(shape, s[i][1], ImageOf[s[i][1]]), s[i][2])]) :
        s \in SeqsUpTo(Fids \X RawSims, MaxRecs), shape \in {"flat", "full"}}

\* What the listing backend may hold: a set of faces, listed in a fixed order.
Listings ==
    {Resp(TRUE, <<>>)} \cup
    {Resp(FALSE, [i \in 1..Len(s) |-> Data(shape, s[i], ImageOf[s[i]])]) :
        s \in {SelectSeq(FidSeq, LAMBDA f : f \in S) : S \in SUBSET Fids},
        shape \in {"flat", "full"}}

\* The arguments of a get_face call: the id alone, or the data alone.
FaceArgs ==
    {<<f, NoData>> : f \in Fids \cup {None}} \cup
    {<<None, Data(shape, d, ImageOf[d])>> :
        d \in Fids, shape \in {"flat", "wrapped", "full"}}

\* The response of a backend call that is not made.
NoResp == Resp(FALSE, <<>>)

\* The answers to the searches of one Person.get_faces call: the loop stops
\* at the first search that raises or matches, so the later ones are not made.
GuessResps(n) ==
    {r \in [1..n -> SearchResps] :
        \A i \in 1..n : (\E j \in 1..(i - 1) : r[j] # NoResp) => r[i] = NoResp}

RespIds(resp) == {resp.records[i].FaceId : i \in 1..Len(resp.records)}

\* --------------------------------------------------------- operations
RECURSIVE SumLen(_, _)
SumLen(f, S) ==
    IF S = {} THEN 0
    ELSE LET x == CHOOSE y \in S : TRUE IN Len(f[x]) + SumLen(f, S \ {x})

\* The size of a database: its Face objects, its confirmations and its
\* filled similar lists.
Size(db) ==
    Len(db.heap) + SumLen(db.persons, DOMAIN db.persons)
    + Cardinality({o \in 1..Len(db.heap) : db.heap[o].similar.init})

Bounded(db) == Len(db.heap) <= MaxObj /\ Size(db) <= MaxSize

Commit(r, op) ==
    /\ Bounded(r.db)
    /\ persons' = r.db.persons
    /\ images' = r.db.images
    /\ faces' = r.db.faces
    /\ heap' = r.db.heap
    /\ ret' = Ret(op, r.err)

Init ==
    /\ persons = EmptyDict
    /\ images = EmptyDict
    /\ faces = EmptyDict
    /\ heap = <<>>
    /\ ret = Ret("init", OK)

AddPerson ==
    \E name \in Names :
        LET r == add_person(DB, name) IN
        Commit(r, "add_person")

GetPerson ==
    \E name \in Names, create \in BOOLEAN :
        LET r == get_person(DB, name, create) IN
        Commit(r, "get_person")

AddImage ==
    \E url \in Urls, index \in BOOLEAN :
        \E resp \in IF index /\ url \notin DOMAIN images THEN DetectResps ELSE {NoResp} :
            LET r == add_image(DB, url, index, resp) IN
            Commit(r, "add_image")

GetImage ==
    \E url \in Urls, create \in BOOLEAN :
        LET r == get_image(DB, url, create) IN
        Commit(r, "get_image")

GetFace ==
    \E a \in FaceArgs, create \in BOOLEAN :
        LET r == get_face(DB, a[1], a[2], create) IN
        Commit(r, "get_face")

ListFaces ==
    \E refresh \in BOOLEAN :
        \E listing \in IF refresh THEN Listings ELSE {NoResp} :
            LET r == list_faces(DB, refresh, listing) IN
            Commit(r, "list_faces")

ImageGetFaces ==
    \E url \in DOMAIN images :
        \E resp \in IF images[url].val = <<>> THEN DetectResps ELSE {NoResp} :
            LET r == Image_get_faces(DB, url, resp) IN
            Commit(r, "Image.get_faces")

FaceGetSimilar ==
    \E o \in Objs, refresh \in BOOLEAN :
        \E resp \in IF refresh \/ ~heap[o].similar.init THEN SearchResps ELSE {NoResp} :
            LET r == get_similar(DB, o, refresh, resp) IN
            Commit(r, "Face.get_similar")

FaceSetPerson ==
    \E o \in Objs, name \in DOMAIN persons :
        LET r == set_person(DB, o, name) IN
        Commit(r, "Face.set_person")

FaceGetPerson ==
    \E o \in Objs :
        \E resp \in IF heap[o].person = None /\ ~heap[o].similar.init
                     THEN SearchResps ELSE {NoResp} :
            LET r == Face_get_person(DB, o, resp) IN
            Commit(r, "Face.get_person")

PersonAddFace ==
    \E name \in DOMAIN persons, o \in Objs :
        LET r == add_face(DB, name, o) IN
        Commit(r, "Person.add_face")

PersonGetFaces ==
    \E name \in DOMAIN persons, guess \in BOOLEAN, refresh \in BOOLEAN :
        \E resps \in IF guess THEN GuessResps(Len(persons[name]))
                     ELSE {[i \in 1..Len(persons[name]) |-> NoResp]} :
            LET r == Person_get_faces(DB, name, guess, refresh, resps) IN
            Commit(r, "Person.get_faces")

\* The registry: persons, images and faces by key.
Registry ==
    \/ AddPerson
    \/ GetPerson
    \/ AddImage
    \/ GetImage
    \/ GetFace
    \/ ListFaces
    \/ ImageGetFaces

\* Confirmation and guessing, over faces made by get_face and list_faces.
Identity ==
    \/ GetPerson
    \/ GetFace
    \/ ListFaces
    \/ FaceGetSimilar
    \/ FaceSetPerson
    \/ FaceGetPerson
    \/ PersonAddFace
    \/ PersonGetFaces

Next == Registry \/ Identity

Spec == Init /\ [][Next]_vars
SpecRegistry == Init /\ [][Registry]_vars
SpecIdentity == Init /\ [][Identity]_vars

\* ----------------------------------------------------------- claims
NoResps(n) == [i \in 1..n |-> NoResp]
Indexes(q) == 1..Len(q)

\* C1: for every Face f and Person p, f.person is p exactly when f is in
\* p.faces.
C1_Lockstep ==
    \A o \in Objs, p \in DOMAIN persons :
        (heap[o].person = p) <=> (o \in Range(persons[p]))

\* The similarity of candidate c in a similar list, summed over its entries.
RECURSIVE SimOf(_, _)
SimOf(similar, c) ==
    IF similar = <<>> THEN <<0, 1>>
    ELSE IF Head(similar)[1] = c THEN FAdd(Head(similar)[2], SimOf(Tail(similar), c))
    ELSE SimOf(Tail(similar), c)
RECURSIVE SimSum(_, _, _)
SimSum(h, confirmed, c) ==
    IF confirmed = <<>> THEN <<0, 1>>
    ELSE FAdd(SimOf(h[Head(confirmed)].similar.val, c), SimSum(h, Tail(confirmed), c))

\* C2: for a Person with n >= 1 confirmed faces, get_faces(guess=true)
\* returns every unconfirmed candidate of its confirmed faces' similar lists,
\* scored by its summed similarity divided by n.
C2_Aggregation ==
    \A p \in DOMAIN persons, refresh \in BOOLEAN :
        \A resps \in GuessResps(Len(persons[p])) :
            LET n == Len(persons[p])
                r == Person_get_faces(DB, p, TRUE, refresh, resps)
                h == r.db.heap
                cands == {c \in 1..Len(h) :
                            /\ h[c].person = None
                            /\ \E i \in 1..n : \E j \in Indexes(h[persons[p][i]].similar.val) :
                                   h[persons[p][i]].similar.val[j][1] = c}
            IN  \A c \in cands :
                    /\ r.err = OK
                    /\ \E k \in Indexes(r.val) :
                           /\ h[r.val[k][1]].fid = h[c].fid
                           /\ FEq(r.val[k][2], FDiv(SimSum(h, persons[p], c), n))

\* C3: get_faces(guess=true) of Person p never returns a face whose
\* confirmed person is another Person.
C3_Exclusion ==
    \A p \in DOMAIN persons, refresh \in BOOLEAN :
        \A resps \in GuessResps(Len(persons[p])) :
            LET r == Person_get_faces(DB, p, TRUE, refresh, resps) IN
            r.err = OK =>
                \A k \in Indexes(r.val) : r.db.heap[r.val[k][1]].person \in {None, p}

\* C4: whatever get_faces returns is in non-increasing score order, and for
\* a Person without confirmed faces it returns the empty list and does not
\* raise.
C4_Sorted ==
    \A p \in DOMAIN persons, guess \in BOOLEAN, refresh \in BOOLEAN :
        \A resps \in IF guess THEN GuessResps(Len(persons[p]))
                     ELSE {NoResps(Len(persons[p]))} :
            LET r == Person_get_faces(DB, p, guess, refresh, resps) IN
            /\ r.err = OK =>
                   \A i \in Indexes(r.val), j \in Indexes(r.val) :
                       i < j => FLeq(r.val[j][2], r.val[i][2])
            /\ persons[p] = <<>> => r.err = OK /\ r.val = <<>>

\* get_faces has returned while one Person has no confirmed face and
\* another has two different ones.
C4_Witness ==
    /\ ret = Ret("Person.get_faces", OK)
    /\ \E p \in DOMAIN persons : persons[p] = <<>>
    /\ \E q \in DOMAIN persons :
           Len(persons[q]) = 2 /\ heap[persons[q][1]].fid # heap[persons[q][2]].fid

\* C5: once an Image's face list has been computed, whatever the detection
\* returned, get_faces returns that list and makes no backend call.
C5_OneDetection ==
    \A url \in DOMAIN images :
        images[url].init =>
            \A resp \in DetectResps :
                LET r == Image_get_faces(DB, url, resp) IN
                r.err = OK /\ r.val = images[url].val /\ r.db.calls = 0

\* C6: add_person on a registered name and add_image on a registered url
\* fail with AlreadyExists, change nothing and make no backend call.
C6_AlreadyExists ==
    /\ \A name \in DOMAIN persons :
           LET r == add_person(DB, name) IN r.err = AlreadyExists /\ r.db = DB
    /\ \A url \in DOMAIN images, index \in BOOLEAN, resp \in DetectResps :
           LET r == add_image(DB, url, index, resp) IN
           r.err = AlreadyExists /\ r.db = DB

\* A registration has just been refused.
C6_Witness ==
    /\ ret.op \in {"add_person", "add_image"}
    /\ ret.status = AlreadyExists
    /\ DOMAIN persons # {}
    /\ DOMAIN faces # {}

\* C7: get_person(name, create=true) registers one Person when the name is
\* absent, returns the registered Person and changes nothing when it is
\* present, and a repeated call returns the same Person and changes nothing.
C7_GetOrCreate ==
    \A name \in Names :
        LET r1 == get_person(DB, name, TRUE)
            r2 == get_person(r1.db, name, TRUE)
        IN  /\ r1.err = OK /\ r1.val = name
            /\ name \notin DOMAIN persons =>
                   r1.db = [DB EXCEPT !.persons = Put(persons, name, <<>>)]
            /\ name \in DOMAIN persons => r1.db = DB
            /\ r2.err = OK /\ r2.val = r1.val /\ r2.db = r1.db

\* get_person has returned while a Person holds a confirmed face.
C7_Witness ==
    /\ ret = Ret("get_person", OK)
    /\ \E p \in DOMAIN persons : persons[p] # <<>>

C9_RoundTrip ==
    \A url \in Urls \ DOMAIN images, resp \in DetectResps :
        LET r == add_image(DB, url, TRUE, resp) IN
        /\ r.err = OK <=> ~resp.fail
        /\ r.err = OK =>
               /\ DOMAIN r.db.faces = DOMAIN faces \cup RespIds(resp)
               /\ \A f \in RespIds(resp) : r.db.heap[r.db.faces[f]].fid = f
               /\ \A f \in DOMAIN faces \ RespIds(resp) : r.db.faces[f] = faces[f]

\* add_image has indexed an image with a face while other faces were
\* registered.
C9_Witness ==
    /\ ret = Ret("add_image", OK)
    /\ \E u \in DOMAIN images :
           /\ images[u].val # <<>>
           /\ \E f \in DOMAIN faces : \A i \in Indexes(images[u].val) :
                  heap[images[u].val[i]].fid # f

\* C10: when list_faces(refresh=true) succeeds, the keys it returns are the
\* identifiers of the whole backend listing, over all its pages.
C10_AllPages ==
    \A listing \in Listings :
        ~listing.fail =>
            LET r == list_faces(DB, TRUE, listing) IN
            r.err = OK => r.val = RespIds(listing)

\* The data a caller may pass to get_face next to the id.
FaceDatas ==
    {NoData} \cup
    {Data(shape, d, ImageOf[d]) : d \in Fids, shape \in {"flat", "wrapped", "full"}}

\* C11: with create=false, get_person, get_image and get_face on an absent
\* key fail with NotFound and change nothing; on a present key they return
\* the registered entity and change nothing.
C11_LookupOnly ==
    /\ \A name \in Names :
           LET r == get_person(DB, name, FALSE) IN
           /\ r.db = DB
           /\ name \notin DOMAIN persons => r.err = NotFound
           /\ name \in DOMAIN persons => r.err = OK /\ r.val = name
    /\ \A url \in Urls :
           LET r == get_image(DB, url, FALSE) IN
           /\ r.db = DB
           /\ url \notin DOMAIN images => r.err = NotFound
           /\ url \in DOMAIN images => r.err = OK /\ r.val = url
    /\ \A fid \in Fids, data \in FaceDatas :
           LET r == get_face(DB, fid, data, FALSE) IN
           /\ r.db = DB
           /\ fid \notin DOMAIN faces => r.err = NotFound
           /\ fid \in DOMAIN faces => r.err = OK /\ r.val = faces[fid]

\* A lookup has just failed with NotFound while each mapping holds an entry.
C11_Witness ==
    /\ ret.op \in {"get_person", "get_image", "get_face"}
    /\ ret.status = NotFound
    /\ DOMAIN persons # {} /\ DOMAIN images # {} /\ DOMAIN faces # {}
    /\ DOMAIN persons # Names /\ DOMAIN images # Urls

\* C12: get_image(url, create=true) on an absent url registers an Image whose
\* face list is uninitialized, makes no backend call and leaves the faces
\* and persons mappings and the Face objects as they were; constructing a
\* Face that names an unknown image registers that Image in the same way.
C12_AutoCreate ==
    /\ \A url \in Urls \ DOMAIN images :
           LET r == get_image(DB, url, TRUE) IN
           /\ r.err = OK /\ r.val = url
           /\ r.db = [DB EXCEPT !.images = Put(images, url, NoList)]
    /\ \A data \in FaceDatas :
           (HasKey(data, "Face") /\ data.ExternalImageId \notin DOMAIN images) =>
               LET r == Face_init(DB, data) IN
               /\ r.err = OK
               /\ r.db.images = Put(images, data.ExternalImageId, NoList)
               /\ r.db.heap[r.val].image = data.ExternalImageId
               /\ r.db.faces = faces /\ r.db.persons = persons /\ r.db.calls = 0

\* An Image created by get_image and an Image created for a new Face are
\* both registered with no face list.
C12_Witness ==
    /\ ret = Ret("get_image", OK)
    /\ \E u \in DOMAIN images, v \in DOMAIN images :
           /\ ~images[u].init /\ ~images[v].init
           /\ \E o \in Objs : heap[o].image = u
           /\ \A o \in Objs : heap[o].image # v

\* C13: get_similar(refresh=false) searches only when the cache is None,
\* and then once; with a cache, empty or not, it returns the cache and
\* changes nothing.  get_similar(refresh=true) makes one search call.  A
\* search that succeeds becomes the cache and the result.
C13_LazySimilar ==
    \A o \in Objs, refresh \in BOOLEAN, resp \in SearchResps :
        LET r == get_similar(DB, o, refresh, resp) IN
        /\ (~refresh /\ heap[o].similar.init) =>
               r.err = OK /\ r.val = heap[o].similar.val /\ r.db = DB
        /\ (refresh \/ ~heap[o].similar.init) =>
               /\ r.db.calls = 1
               /\ r.err = OK => r.db.heap[o].similar = SomeList(r.val)
               /\ (r.err = OK /\ ~resp.fail) => Len(r.val) = Len(resp.records)

\* get_similar has returned while a Face holds an empty cache and another
\* a cache with an entry.
C13_Witness ==
    /\ ret = Ret("Face.get_similar", OK)
    /\ \E o \in Objs : heap[o].similar.init /\ heap[o].similar.val = <<>>
    /\ \E o \in Objs : heap[o].similar.init /\ heap[o].similar.val # <<>>

\* [(x[0].person, x[1]) for x in similar if x[0].person], as the design
\* states it.
RECURSIVE PersonGuesses(_, _)
PersonGuesses(h, similar) ==
    IF similar = <<>> THEN <<>>
    ELSE (IF h[Head(similar)[1]].person # None
          THEN <<<<h[Head(similar)[1]].person, Head(similar)[2]>>>>
          ELSE <<>>) \o PersonGuesses(h, Tail(similar))

\* C14: get_person on a confirmed face returns [(its person, 1.0)] and
\* makes no search; on an unconfirmed face whose similar list is available
\* it returns, without an error, (person, similarity) for the entries whose
\* face is confirmed.
C14_GetPerson ==
    \A o \in Objs, resp \in SearchResps :
        LET r == Face_get_person(DB, o, resp)
            s == get_similar(DB, o, FALSE, resp)
        IN  /\ heap[o].person # None =>
                   r.err = OK /\ r.val = <<<<heap[o].person, One>>>> /\ r.db = DB
            /\ (heap[o].person = None /\ s.err = OK) =>
                   r.err = OK /\ r.val = PersonGuesses(s.db.heap, s.val)

\* C15: confirming a face of Person p1 to another Person p2, by set_person
\* or by add_face, succeeds, makes p2 the face's person, appends the face to
\* p2's list and leaves it in p1's list.
C15_Reconfirm ==
    \A o \in Objs, p1 \in DOMAIN persons, p2 \in DOMAIN persons :
        (p1 # p2 /\ heap[o].person = p1 /\ o \in Range(persons[p1])) =>
            \A r \in {set_person(DB, o, p2), add_face(DB, p2, o)} :
                /\ r.err = OK
                /\ r.db.heap[o].person = p2
                /\ r.db.persons[p1] = persons[p1]
                /\ r.db.persons[p2] = Append(persons[p2], o)
                /\ o \in Range(r.db.persons[p1]) /\ o \in Range(r.db.persons[p2])

\* A face has just been confirmed to a second Person and is listed under
\* both.
C15_Witness ==
    /\ ret.op \in {"Face.set_person", "Person.add_face"}
    /\ ret.status = OK
    /\ \E o \in Objs, p1 \in DOMAIN persons, p2 \in DOMAIN persons :
           /\ p1 # p2 /\ heap[o].person = p2
           /\ o \in Range(persons[p1])
           /\ persons[p2] # <<>> /\ persons[p2][Len(persons[p2])] = o

\* The Face the database holds for identifier i is confirmed: it has a
\* person and is in a Person's list.
Confirmed(i) ==
    /\ i \in DOMAIN faces
    /\ heap[faces[i]].person # None
    /\ \E p \in DOMAIN persons : faces[i] \in Range(persons[p])

\* C16: once the Face the database holds for an identifier is confirmed,
\* the Face it holds for that identifier is confirmed in every later state.
C16_Permanent ==
    [][\A i \in Fids : (Confirmed(i) /\ i \in DOMAIN faces') => Confirmed(i)']_vars

\* C17: indexing resolves a detected identifier that is already registered
\* to the registered Face: add_image(index=true) leaves that entry of the
\* face mapping as it was, and Image.get_faces returns it.
C17_IndexKeepsFaces ==
    /\ \A url \in Urls \ DOMAIN images, resp \in DetectResps :
           LET r == add_image(DB, url, TRUE, resp) IN
           r.err = OK =>
               \A f \in RespIds(resp) \cap DOMAIN faces : r.db.faces[f] = faces[f]
    /\ \A url \in DOMAIN images, resp \in DetectResps :
           LET r == Image_get_faces(DB, url, resp) IN
           (r.err = OK /\ images[url].val = <<>>) =>
               \A k \in Indexes(r.val) :
                   r.db.heap[r.val[k]].fid \in DOMAIN faces =>
                       r.val[k] = faces[r.db.heap[r.val[k]].fid]

\* Listings whose records differ in shape, so that the construction of a
\* Face can fail after others of the same listing were constructed.
MixedListings ==
    {Resp(TRUE, <<>>)} \cup
    {Resp(FALSE, [i \in 1..Len(s) |-> Data(s[i][2], s[i][1], ImageOf[s[i][1]])]) :
        s \in SeqsUpTo(Fids \X {"flat", "wrapped", "full"}, PageSize)}

\* C18 as stated: when list_faces(refresh=true) fails, the face mapping has
\* been cleared: no entry it had before the call is left.
C18_ClearedFirst ==
    \A listing \in MixedListings :
        LET r == list_faces(DB, TRUE, listing) IN
        r.err # OK =>
            \A f \in DOMAIN faces : f \notin DOMAIN r.db.faces \/ r.db.faces[f] # faces[f]

\* C18 as the code behaves: when list_faces(refresh=true) fails, in the
\* backend call or while a Face is constructed, the face mapping, the
\* persons and the existing Face objects are as they were before the call.
C18_FailureKeepsFaces ==
    \A listing \in MixedListings :
        LET r == list_faces(DB, TRUE, listing) IN
        r.err # OK =>
            /\ r.db.faces = faces
            /\ r.db.persons = persons
            /\ SubSeq(r.db.heap, 1, Len(heap)) = heap

\* A refresh has just failed and the face mapping holds an entry.
C18_Witness ==
    /\ ret.op = "list_faces"
    /\ ret.status # OK
    /\ DOMAIN faces # {}

\* C19: every Face of the face mapping has its Image registered in the image
\* mapping under the Image's url, also after a search has registered the
\* faces it matched.
C19_ImageRegistered ==
    /\ \A f \in DOMAIN faces : heap[faces[f]].image \in DOMAIN images
    /\ \A o \in Objs, resp \in SearchResps :
           LET r == get_similar(DB, o, TRUE, resp) IN
           \A f \in DOMAIN r.db.faces :
               r.db.heap[r.db.faces[f]].image \in DOMAIN r.db.images

\* Faces are registered whose Images came from add_image and from the
\* construction of a Face.
C19_Witness ==
    \E f \in DOMAIN faces, g \in DOMAIN faces :
        /\ images[heap[faces[f]].image].init
        /\ ~images[heap[faces[g]].image].init

\* C20: a Person's confirmed list holds each Face at most once.
C20_NoDuplicates ==
    \A p \in DOMAIN persons :
        \A i \in Indexes(persons[p]), j \in Indexes(persons[p]) :
            persons[p][i] = persons[p][j] => i = j

====
